---- MODULE Spec2Model ----
(***************************************************************************)
(* LoadFlare: a model of the two command-line tools of the repository,     *)
(* load_flare.py (one curl command template, run -n times) and             *)
(* multi_load_flare.py (several templates, each with its own count).       *)
(* Both parse their arguments, submit every request to a                   *)
(* ThreadPoolExecutor of args.concurrency workers, count the results in    *)
(* four counters as the futures complete, and print a final summary.       *)
(*                                                                         *)
(* Strings the code inspects character by character (the captured stdout   *)
(* of curl) are sequences of one-character strings.  A command string is   *)
(* the sequence of its words; shlex.split fails on an unbalanced quote.    *)
(***************************************************************************)
EXTENDS Integers, Sequences, FiniteSets, TLC

(* ------------------------------ bounds -------------------------------- *)

\* the largest request count (-n) and the largest number of work items of a run
MaxRequests == 3
\* the largest worker-pool size (-c)
MaxConcurrency == 2
\* the largest number of work items of the runs checked for termination
MaxLiveRequests == 2
\* the largest number of words after 'curl' in the templates that are parsed
MaxWords == 3

(* --------------------------- Python values ---------------------------- *)

\* Python's None in the place of an http_status_code (the codes are >= 0)
None == -1

Max(a, b) == IF a >= b THEN a ELSE b

(* ------------------------- stdout and parsing ------------------------- *)

Digits == {"0", "1", "2", "3", "4", "5", "6", "7", "8", "9"}

DigitValue ==
  [d \in Digits |->
     CASE d = "0" -> 0 [] d = "1" -> 1 [] d = "2" -> 2 [] d = "3" -> 3
       [] d = "4" -> 4 [] d = "5" -> 5 [] d = "6" -> 6 [] d = "7" -> 7
       [] d = "8" -> 8 [] d = "9" -> 9]

\* the characters str.strip() removes
Whitespace == {" ", "\n", "\t", "\r"}

RECURSIVE LStrip(_)
LStrip(s) ==
  IF s # << >> /\ Head(s) \in Whitespace THEN LStrip(Tail(s)) ELSE s

RECURSIVE RStrip(_)
RStrip(s) ==
  IF s # << >> /\ s[Len(s)] \in Whitespace
  THEN RStrip(SubSeq(s, 1, Len(s) - 1))
  ELSE s

\* str.strip()
Strip(s) == RStrip(LStrip(s))

\* s.split('\n')[-1]: what follows the last newline of s
RECURSIVE LastLine(_)
LastLine(s) ==
  IF \E i \in DOMAIN s : s[i] = "\n" THEN LastLine(Tail(s)) ELSE s

AllDigits(s) == \A i \in DOMAIN s : s[i] \in Digits

\* int(s) of a string of decimal digits
RECURSIVE ToInt(_)
ToInt(s) ==
  IF s = << >> THEN 0
  ELSE 10 * ToInt(SubSeq(s, 1, Len(s) - 1)) + DigitValue[s[Len(s)]]

\* load_flare.py: the last line of the stripped stdout, when it is all digits
SingleStatusCode(stdout) ==
  LET last == LastLine(Strip(stdout))
  IN  IF last # << >> /\ AllDigits(last) THEN ToInt(last) ELSE None

\* multi_load_flare.py: re.search(r'(\d{3})\n?$', stdout.strip())
MultiStatusCode(stdout) ==
  LET actual_stdout == Strip(stdout)
      n == Len(actual_stdout)
  IN  IF n >= 3 /\ AllDigits(SubSeq(actual_stdout, n - 2, n))
      THEN ToInt(SubSeq(actual_stdout, n - 2, n))
      ELSE None

(* ------------------------------ execute_curl -------------------------- *)

\* What one subprocess.run of curl does: it raises ("FileNotFoundError",
\* "Exception"), or it returns ("") with a return code and a captured stdout.
CurlRun(raised, returncode, stdout) ==
  [raised |-> raised, returncode |-> returncode, stdout |-> stdout]

\* the tuple a future holds: (return_code, http_status_code, ...); raised names
\* the except clause of execute_curl that built it ("" for the try body)
Result(return_code, http_status_code, raised) ==
  [return_code |-> return_code, http_status_code |-> http_status_code,
   raised |-> raised]

NoResult == Result(0, None, "")

\* load_flare.py execute_curl: the value returned for one run of curl
SingleExecuteCurl(run) ==
  IF run.raised = ""
  THEN Result(run.returncode, SingleStatusCode(run.stdout), "")
  ELSE Result(-1, None, run.raised)

\* MultiExecuteCurl whose except clauses report an ordinary response
MultiExecuteCurlSwallow(run) ==
  IF run.raised = ""
  THEN Result(run.returncode, MultiStatusCode(run.stdout), "")
  ELSE Result(0, 200, run.raised)

\* multi_load_flare.py execute_curl: the value returned for one run of curl
MultiExecuteCurl(run) ==
  IF run.raised = ""
  THEN Result(run.returncode, MultiStatusCode(run.stdout), "")
  ELSE Result(-1, None, run.raised)

(* ------------------------- the collection loops ----------------------- *)

Buckets == {"success", "client_error", "server_error", "other_failure"}

\* SingleBucket that takes exit status 0 without a status code for a success,
\* as the per-request log of execute_curl words it
SingleBucketNoCodeSuccess(r) ==
  IF r.return_code = 0 /\ r.http_status_code # None
  THEN IF 200 <= r.http_status_code /\ r.http_status_code < 400
         THEN "success"
       ELSE IF 400 <= r.http_status_code /\ r.http_status_code < 500
         THEN "client_error"
       ELSE IF 500 <= r.http_status_code /\ r.http_status_code < 600
         THEN "server_error"
       ELSE "other_failure"
  ELSE IF r.return_code = 0 THEN "success"
  ELSE "other_failure"

\* load_flare.py main: the counter the collection loop increments for a result
SingleBucket(r) ==
  IF r.return_code = 0 /\ r.http_status_code # None
  THEN IF 200 <= r.http_status_code /\ r.http_status_code < 400
         THEN "success"
       ELSE IF 400 <= r.http_status_code /\ r.http_status_code < 500
         THEN "client_error"
       ELSE IF 500 <= r.http_status_code /\ r.http_status_code < 600
         THEN "server_error"
       ELSE "other_failure"
  ELSE "other_failure"

\* MultiBucket with the upper limit of each band taken inclusive
MultiBucketInclusive(r) ==
  IF r.http_status_code # None
  THEN IF 200 <= r.http_status_code /\ r.http_status_code <= 400
         THEN "success"
       ELSE IF 400 <= r.http_status_code /\ r.http_status_code <= 500
         THEN "client_error"
       ELSE IF 500 <= r.http_status_code /\ r.http_status_code <= 600
         THEN "server_error"
       ELSE "other_failure"
  ELSE "other_failure"

\* MultiBucket that takes exit status 0 without a status code for a success
MultiBucketNoCodeSuccess(r) ==
  IF r.http_status_code # None
  THEN IF 200 <= r.http_status_code /\ r.http_status_code < 400
         THEN "success"
       ELSE IF 400 <= r.http_status_code /\ r.http_status_code < 500
         THEN "client_error"
       ELSE IF 500 <= r.http_status_code /\ r.http_status_code < 600
         THEN "server_error"
       ELSE "other_failure"
  ELSE IF r.return_code = 0 THEN "success"
  ELSE "other_failure"

\* multi_load_flare.py main: the counter the collection loop increments
MultiBucket(r) ==
  IF r.http_status_code # None
  THEN IF 200 <= r.http_status_code /\ r.http_status_code < 400
         THEN "success"
       ELSE IF 400 <= r.http_status_code /\ r.http_status_code < 500
         THEN "client_error"
       ELSE IF 500 <= r.http_status_code /\ r.http_status_code < 600
         THEN "server_error"
       ELSE "other_failure"
  ELSE IF r.return_code = 0 THEN "other_failure"
  ELSE "other_failure"

(* ------------------------- command templates -------------------------- *)

\* a word shlex.split rejects: an opening quote that is never closed
OpenQuote == "\""

\* shlex.split raises ValueError ("No closing quotation")
ShlexRaises(cmd_str) == \E i \in DOMAIN cmd_str : cmd_str[i] = OpenQuote

\* shlex.split of a command string that has no unbalanced quote: its words
ShlexSplit(cmd_str) == cmd_str

\* the words int() accepts, and their values
IntWords == {"-1", "0", "1", "2", "3"}

IntValue ==
  [w \in IntWords |->
     CASE w = "-1" -> -1 [] w = "0" -> 0 [] w = "1" -> 1 [] w = "2" -> 2
       [] w = "3" -> 3]

\* the words of the model for which str.startswith('-') is true
DashWords ==
  {"-n", "--requests", "-c", "--concurrency", "-w", "--write-out", "-s",
   "--silent", "-L", "--location", "-X", "-1"}

StartsWithDash(w) == w \in DashWords

\* ParseArgs that takes the value of an embedded -c for the count
RECURSIVE ParseArgsConcurrencyCounts(_, _, _, _)
ParseArgsConcurrencyCounts(toks, i, per_cmd_requests, final_curl_args) ==
  IF i > Len(toks)
  THEN [per_cmd_requests |-> per_cmd_requests,
        final_curl_args |-> final_curl_args]
  ELSE
    LET arg == toks[i] IN
    IF arg \in {"-n", "--requests"}
    THEN IF i + 1 <= Len(toks) /\ toks[i + 1] \in IntWords
         THEN ParseArgsConcurrencyCounts(toks, i + 2, IntValue[toks[i + 1]],
                                         final_curl_args)
         ELSE ParseArgsConcurrencyCounts(toks, i + 1, per_cmd_requests,
                                         final_curl_args)
    ELSE IF arg \in {"-c", "--concurrency"}
    THEN IF i + 1 <= Len(toks) /\ ~StartsWithDash(toks[i + 1])
         THEN ParseArgsConcurrencyCounts(
                toks, i + 2,
                IF toks[i + 1] \in IntWords THEN IntValue[toks[i + 1]]
                ELSE per_cmd_requests,
                final_curl_args)
         ELSE ParseArgsConcurrencyCounts(toks, i + 1, per_cmd_requests,
                                         final_curl_args)
    ELSE ParseArgsConcurrencyCounts(toks, i + 1, per_cmd_requests,
                                    Append(final_curl_args, arg))

\* ParseArgs that drops an embedded -c and leaves its value in the arguments
RECURSIVE ParseArgsKeepValue(_, _, _, _)
ParseArgsKeepValue(toks, i, per_cmd_requests, final_curl_args) ==
  IF i > Len(toks)
  THEN [per_cmd_requests |-> per_cmd_requests,
        final_curl_args |-> final_curl_args]
  ELSE
    LET arg == toks[i] IN
    IF arg \in {"-n", "--requests"}
    THEN IF i + 1 <= Len(toks) /\ toks[i + 1] \in IntWords
         THEN ParseArgsKeepValue(toks, i + 2, IntValue[toks[i + 1]],
                                 final_curl_args)
         ELSE ParseArgsKeepValue(toks, i + 1, per_cmd_requests,
                                 final_curl_args)
    ELSE IF arg \in {"-c", "--concurrency"}
    THEN ParseArgsKeepValue(toks, i + 1, per_cmd_requests, final_curl_args)
    ELSE ParseArgsKeepValue(toks, i + 1, per_cmd_requests,
                            Append(final_curl_args, arg))

\* multi_load_flare.py main, the while loop over the words of one template:
\* from position i (1-based), with the count and the curl arguments so far
RECURSIVE ParseArgs(_, _, _, _)
ParseArgs(toks, i, per_cmd_requests, final_curl_args) ==
  IF i > Len(toks)
  THEN [per_cmd_requests |-> per_cmd_requests,
        final_curl_args |-> final_curl_args]
  ELSE
    LET arg == toks[i] IN
    IF arg \in {"-n", "--requests"}
    THEN IF i + 1 <= Len(toks) /\ toks[i + 1] \in IntWords
         THEN ParseArgs(toks, i + 2, IntValue[toks[i + 1]], final_curl_args)
         ELSE ParseArgs(toks, i + 1, per_cmd_requests, final_curl_args)
    ELSE IF arg \in {"-c", "--concurrency"}
    THEN IF i + 1 <= Len(toks) /\ ~StartsWithDash(toks[i + 1])
         THEN ParseArgs(toks, i + 2, per_cmd_requests, final_curl_args)
         ELSE ParseArgs(toks, i + 1, per_cmd_requests, final_curl_args)
    ELSE ParseArgs(toks, i + 1, per_cmd_requests, Append(final_curl_args, arg))

\* n copies of x: the tasks one template adds (range(n) is empty for n <= 0)
RECURSIVE Repeat(_, _)
Repeat(x, n) == IF n <= 0 THEN << >> ELSE <<x>> \o Repeat(x, n - 1)

\* TemplateTasks that repeats every template the global number of times
TemplateTasksGlobalOnly(original_cmd_str, global_requests_count) ==
  IF ShlexRaises(original_cmd_str) THEN << >>
  ELSE
    LET temp_parsed_args == ShlexSplit(original_cmd_str) IN
    IF temp_parsed_args = << >> \/ temp_parsed_args[1] # "curl" THEN << >>
    ELSE
      LET p == ParseArgs(temp_parsed_args, 1, global_requests_count, << >>)
      IN  IF p.final_curl_args = << >> THEN << >>
          ELSE Repeat([command_args |-> p.final_curl_args,
                       original_cmd_str |-> original_cmd_str],
                      global_requests_count)

\* multi_load_flare.py main: the tasks of one command string
TemplateTasks(original_cmd_str, global_requests_count) ==
  IF ShlexRaises(original_cmd_str) THEN << >>
  ELSE
    LET temp_parsed_args == ShlexSplit(original_cmd_str) IN
    IF temp_parsed_args = << >> \/ temp_parsed_args[1] # "curl" THEN << >>
    ELSE
      LET p == ParseArgs(temp_parsed_args, 1, global_requests_count, << >>)
      IN  IF p.final_curl_args = << >> THEN << >>
          ELSE Repeat([command_args |-> p.final_curl_args,
                       original_cmd_str |-> original_cmd_str],
                      p.per_cmd_requests)

\* BuildTasks that gives up the whole batch at a command string that yields
\* no task
RECURSIVE BuildTasksAbort(_, _)
BuildTasksAbort(curl_commands, global_requests_count) ==
  IF curl_commands = << >> THEN << >>
  ELSE IF \E k \in DOMAIN curl_commands :
            TemplateTasks(curl_commands[k], global_requests_count) = << >>
  THEN << >>
  ELSE TemplateTasks(Head(curl_commands), global_requests_count)
       \o BuildTasksAbort(Tail(curl_commands), global_requests_count)

\* multi_load_flare.py main: all_tasks after the loop over args.curl_commands
RECURSIVE BuildTasks(_, _)
BuildTasks(curl_commands, global_requests_count) ==
  IF curl_commands = << >> THEN << >>
  ELSE TemplateTasks(Head(curl_commands), global_requests_count)
       \o BuildTasks(Tail(curl_commands), global_requests_count)

\* load_flare.py main: the command string is accepted (it parses and starts
\* with 'curl')
SingleCommandOk(curl_command) ==
  /\ ~ShlexRaises(curl_command)
  /\ ShlexSplit(curl_command) # << >>
  /\ ShlexSplit(curl_command)[1] = "curl"

(* ------------------- the command execute_curl runs -------------------- *)

\* the format both tools put after the -w they inject
HttpCodeFormat == "%{http_code}\n"

\* Python's `w in command_args`
In(w, command_args) == \E k \in DOMAIN command_args : command_args[k] = w

\* load_flare.py execute_curl: the command handed to subprocess.run
SingleModifiedCommandArgs(command_args) ==
  <<command_args[1], "-w", HttpCodeFormat>> \o Tail(command_args)

\* multi_load_flare.py execute_curl, the loop over command_args[1:]: the
\* arguments appended, a -w or --write-out and the word after it left out
RECURSIVE AppendRest(_, _)
AppendRest(rest, skip_next) ==
  IF rest = << >> THEN << >>
  ELSE IF skip_next THEN AppendRest(Tail(rest), FALSE)
  ELSE IF Head(rest) = "-w" \/ Head(rest) = "--write-out"
    THEN AppendRest(Tail(rest), TRUE)
  ELSE <<Head(rest)>> \o AppendRest(Tail(rest), FALSE)

\* multi_load_flare.py execute_curl: the command handed to subprocess.run
MultiModifiedCommandArgs(command_args) ==
  <<command_args[1]>>
    \o (IF ~In("-s", command_args) /\ ~In("--silent", command_args)
        THEN <<"-s">> ELSE << >>)
    \o (IF ~In("-L", command_args) /\ ~In("--location", command_args)
        THEN <<"-L">> ELSE << >>)
    \o <<"-w", HttpCodeFormat>>
    \o AppendRest(Tail(command_args), FALSE)

(* ------------------------------- inputs ------------------------------- *)

\* the command strings of the runs: a plain curl command, one with an
\* embedded count, one that does not start with curl, one shlex rejects
CommandStrings ==
  { <<"curl", "url">>,
    <<"curl", "url", "-n", "2">>,
    <<"wget", "url">>,
    <<"curl", OpenQuote>> }

\* the positional arguments of multi_load_flare.py (nargs='+')
CommandLists ==
  {<<a>> : a \in CommandStrings}
    \cup {<<a, b>> : a \in {<<"curl", "url">>, <<"curl", "url", "-n", "2">>},
                     b \in CommandStrings}

\* what curl may do in a run of the pool
CurlRuns ==
  { CurlRun("", 0, <<"2", "0", "0", "\n">>),
    CurlRun("", 0, <<"4", "0", "4", "\n">>),
    CurlRun("", 0, <<"o", "k", "\n", "5", "0", "0", "\n">>),
    CurlRun("", 0, << >>),
    CurlRun("", 22, <<"4", "0", "4", "\n">>),
    CurlRun("FileNotFoundError", 0, << >>),
    CurlRun("Exception", 0, << >>) }

\* the digits of the status codes at and around the band boundaries
CodeDigits == {"0", "1", "2", "3", "4", "5", "6", "9"}

\* what curl may do in a run of one request: every three-digit code over
\* CodeDigits, with exit status 0 and not, and outputs that hold no code
WideCurlRuns ==
  {CurlRun("", rc, <<a, b, c, "\n">>) :
       rc \in {0, 22}, a \in CodeDigits, b \in CodeDigits, c \in CodeDigits}
    \cup {CurlRun("", rc, out) :
            rc \in {0, 22},
            out \in { << >>, <<"o", "k">>, <<"7">>, <<"1", "2", "0", "0">>,
                      <<"o", "k", "2", "0", "0">> }}
    \cup {CurlRun("FileNotFoundError", 0, << >>),
          CurlRun("Exception", 0, << >>)}

(* -------------------------------- state ------------------------------- *)

VARIABLES
  tool,                \* "single": load_flare.py, "multi": multi_load_flare.py
  args,                \* argparse's namespace: curl_commands, requests, concurrency
  pc,                  \* where main() is
  all_tasks,           \* multi_load_flare.py: the tasks built from the templates
  futures,             \* the futures of the submitted work items, in order
  success_count,
  client_error_count,
  server_error_count,
  other_failure_count,
  summary              \* the final summary, once printed

vars ==
  <<tool, args, pc, all_tasks, futures, success_count, client_error_count,
    server_error_count, other_failure_count, summary>>

counters ==
  <<success_count, client_error_count, server_error_count, other_failure_count>>

\* a future: its state in the pool, the value execute_curl returned, the number
\* of calls of execute_curl made for it, the command its call handed to
\* subprocess.run (<< >> until the call), and the counter the collection loop
\* incremented for it ("" until as_completed has yielded it)
Future(state, result, calls, counted_as) ==
  [state |-> state, result |-> result, calls |-> calls, command |-> << >>,
   counted_as |-> counted_as]

\* the number of work items main() submits
NumTasks ==
  IF tool = "single" THEN Max(0, args.requests) ELSE Len(all_tasks)

Running == {i \in DOMAIN futures : futures[i].state = "RUNNING"}

Pending == {i \in DOMAIN futures : futures[i].state = "PENDING"}

Collected == {i \in DOMAIN futures : futures[i].counted_as # ""}

NoSummary ==
  [printed |-> FALSE, total |-> 0, success |-> 0, client_error |-> 0,
   server_error |-> 0, other_failure |-> 0]

\* the runs whose number of work items is at most maxTasks
InitWith(maxTasks) ==
  /\ tool \in {"single", "multi"}
  /\ args \in [curl_commands : CommandLists,
               requests : -1 .. maxTasks,
               concurrency : -1 .. MaxConcurrency]
  /\ tool = "single" => Len(args.curl_commands) = 1
  /\ tool = "multi" =>
       Len(BuildTasks(args.curl_commands, args.requests)) <= maxTasks
  /\ pc = "start"
  /\ all_tasks = << >>
  /\ futures = << >>
  /\ success_count = 0
  /\ client_error_count = 0
  /\ server_error_count = 0
  /\ other_failure_count = 0
  /\ summary = NoSummary

Init == InitWith(MaxRequests)

(* ------------------------------- main() ------------------------------- *)

\* load_flare.py main: the command string is split and checked
ParseSingle ==
  /\ tool = "single"
  /\ pc = "start"
  /\ pc' = IF SingleCommandOk(args.curl_commands[1]) THEN "pool" ELSE "returned"
  /\ UNCHANGED <<tool, args, all_tasks, futures, counters, summary>>

\* ParseMulti without the early return on an empty all_tasks
ParseMultiNoReturn ==
  /\ tool = "multi"
  /\ pc = "start"
  /\ all_tasks' = BuildTasks(args.curl_commands, args.requests)
  /\ pc' = "pool"
  /\ UNCHANGED <<tool, args, futures, counters, summary>>

\* multi_load_flare.py main: all_tasks is built; with no task, main returns
ParseMulti ==
  /\ tool = "multi"
  /\ pc = "start"
  /\ all_tasks' = BuildTasks(args.curl_commands, args.requests)
  /\ pc' = IF all_tasks' = << >> THEN "returned" ELSE "pool"
  /\ UNCHANGED <<tool, args, futures, counters, summary>>

\* CreatePool of a pool that accepts any max_workers
CreatePoolUnchecked ==
  /\ pc = "pool"
  /\ pc' = IF NumTasks = 0 THEN "collect" ELSE "submit"
  /\ UNCHANGED <<tool, args, all_tasks, futures, counters, summary>>

\* ThreadPoolExecutor(max_workers=args.concurrency): ValueError when
\* max_workers <= 0, which nothing catches
CreatePool ==
  /\ pc = "pool"
  /\ pc' = IF args.concurrency <= 0 THEN "crashed"
           ELSE IF NumTasks = 0 THEN "collect"
           ELSE "submit"
  /\ UNCHANGED <<tool, args, all_tasks, futures, counters, summary>>

\* executor.submit(execute_curl, ...); futures.append(future)
Submit ==
  /\ pc = "submit"
  /\ Len(futures) < NumTasks
  /\ futures' = Append(futures, Future("PENDING", NoResult, 0, ""))
  /\ pc' = IF Len(futures') = NumTasks THEN "collect" ELSE "submit"
  /\ UNCHANGED <<tool, args, all_tasks, counters, summary>>

\* the command_args main submits with work item i
CommandArgs(i) ==
  IF tool = "single" THEN ShlexSplit(args.curl_commands[1])
  ELSE all_tasks[i].command_args

\* modified_command_args of the call of execute_curl for work item i
ModifiedCommandArgs(i) ==
  IF tool = "single" THEN SingleModifiedCommandArgs(CommandArgs(i))
  ELSE MultiModifiedCommandArgs(CommandArgs(i))

\* Start in a pool that does not limit its workers
StartUnbounded(i) ==
  /\ pc \in {"submit", "collect"}
  /\ i \in Pending
  /\ \A j \in Pending : i <= j
  /\ futures' = [futures EXCEPT ![i].state = "RUNNING",
                                ![i].calls = @ + 1,
                                ![i].command = ModifiedCommandArgs(i)]
  /\ UNCHANGED <<tool, args, pc, all_tasks, counters, summary>>

\* Start in a pool that keeps one worker fewer than max_workers
StartStarved(i) ==
  /\ pc \in {"submit", "collect"}
  /\ i \in Pending
  /\ \A j \in Pending : i <= j
  /\ Cardinality(Running) < args.concurrency - 1
  /\ futures' = [futures EXCEPT ![i].state = "RUNNING",
                                ![i].calls = @ + 1,
                                ![i].command = ModifiedCommandArgs(i)]
  /\ UNCHANGED <<tool, args, pc, all_tasks, counters, summary>>

\* Start in a pool whose workers take any queued item, not the oldest
StartAnyPending(i) ==
  /\ pc \in {"submit", "collect"}
  /\ i \in Pending
  /\ Cardinality(Running) < args.concurrency
  /\ futures' = [futures EXCEPT ![i].state = "RUNNING",
                                ![i].calls = @ + 1,
                                ![i].command = ModifiedCommandArgs(i)]
  /\ UNCHANGED <<tool, args, pc, all_tasks, counters, summary>>

\* Start in a pool that takes new work only once every running call has
\* returned
StartWhenIdle(i) ==
  /\ pc \in {"submit", "collect"}
  /\ i \in Pending
  /\ \A j \in Pending : i <= j
  /\ Running = {}
  /\ futures' = [futures EXCEPT ![i].state = "RUNNING",
                                ![i].calls = @ + 1,
                                ![i].command = ModifiedCommandArgs(i)]
  /\ UNCHANGED <<tool, args, pc, all_tasks, counters, summary>>

\* a worker of the pool takes the oldest queued work item and calls execute_curl
Start(i) ==
  /\ pc \in {"submit", "collect"}
  /\ i \in Pending
  /\ \A j \in Pending : i <= j
  /\ Cardinality(Running) < args.concurrency
  /\ futures' = [futures EXCEPT ![i].state = "RUNNING",
                                ![i].calls = @ + 1,
                                ![i].command = ModifiedCommandArgs(i)]
  /\ UNCHANGED <<tool, args, pc, all_tasks, counters, summary>>

\* the value execute_curl returns for a run of curl
ExecuteCurl(run) ==
  IF tool = "single" THEN SingleExecuteCurl(run) ELSE MultiExecuteCurl(run)

\* FinishWith in an engine that queues a request again when curl raised
FinishWithRetry(i, runs) ==
  /\ i \in Running
  /\ \E run \in runs :
       futures' = [futures EXCEPT
                     ![i].state = IF run.raised = "" THEN "FINISHED"
                                  ELSE "PENDING",
                     ![i].result = ExecuteCurl(run)]
  /\ UNCHANGED <<tool, args, pc, all_tasks, counters, summary>>

\* FinishWith of an execute_curl that counts its own failures in the worker
FinishWithCount(i, runs) ==
  /\ i \in Running
  /\ \E run \in runs :
       /\ futures' = [futures EXCEPT ![i].state = "FINISHED",
                                     ![i].result = ExecuteCurl(run)]
       /\ other_failure_count' =
            other_failure_count + (IF run.raised = "" THEN 0 ELSE 1)
  /\ UNCHANGED <<tool, args, pc, all_tasks, success_count,
                 client_error_count, server_error_count, summary>>

\* execute_curl returns and the worker sets the future's result
FinishWith(i, runs) ==
  /\ i \in Running
  /\ \E run \in runs :
       futures' = [futures EXCEPT ![i].state = "FINISHED",
                                  ![i].result = ExecuteCurl(run)]
  /\ UNCHANGED <<tool, args, pc, all_tasks, counters, summary>>

Finish(i) == FinishWith(i, CurlRuns)

\* the counter the collection loop increments for a result
Bucket(r) == IF tool = "single" THEN SingleBucket(r) ELSE MultiBucket(r)

\* Collect of a loop that takes the results to arrive in submission order: a
\* future yielded before an earlier one is counted as an other failure
CollectInOrder(i) ==
  /\ pc = "collect"
  /\ i \in DOMAIN futures
  /\ futures[i].state = "FINISHED"
  /\ futures[i].counted_as = ""
  /\ LET b == IF \E j \in 1 .. (i - 1) : futures[j].counted_as = ""
              THEN "other_failure"
              ELSE Bucket(futures[i].result)
     IN
       /\ futures' = [futures EXCEPT ![i].counted_as = b]
       /\ success_count' = success_count + (IF b = "success" THEN 1 ELSE 0)
       /\ client_error_count' =
            client_error_count + (IF b = "client_error" THEN 1 ELSE 0)
       /\ server_error_count' =
            server_error_count + (IF b = "server_error" THEN 1 ELSE 0)
       /\ other_failure_count' =
            other_failure_count + (IF b = "other_failure" THEN 1 ELSE 0)
  /\ UNCHANGED <<tool, args, pc, all_tasks, summary>>

\* one iteration of `for future in as_completed(futures)`
Collect(i) ==
  /\ pc = "collect"
  /\ i \in DOMAIN futures
  /\ futures[i].state = "FINISHED"
  /\ futures[i].counted_as = ""
  /\ LET b == Bucket(futures[i].result) IN
       /\ futures' = [futures EXCEPT ![i].counted_as = b]
       /\ success_count' = success_count + (IF b = "success" THEN 1 ELSE 0)
       /\ client_error_count' =
            client_error_count + (IF b = "client_error" THEN 1 ELSE 0)
       /\ server_error_count' =
            server_error_count + (IF b = "server_error" THEN 1 ELSE 0)
       /\ other_failure_count' =
            other_failure_count + (IF b = "other_failure" THEN 1 ELSE 0)
  /\ UNCHANGED <<tool, args, pc, all_tasks, summary>>

\* AllCollected of a loop that stops at the first future that is not done
AllCollectedEarly ==
  \A i \in DOMAIN futures :
    futures[i].state = "FINISHED" => futures[i].counted_as # ""

\* as_completed has yielded every future: the loop and the with block end
AllCollected == \A i \in DOMAIN futures : futures[i].counted_as # ""

\* the total the summary prints: args.requests, or len(all_tasks)
ReportedTotal ==
  IF tool = "single" THEN args.requests ELSE Len(all_tasks)

\* the final summary is printed and main returns
Summary ==
  /\ pc = "collect"
  /\ AllCollected
  /\ summary' = [printed |-> TRUE, total |-> ReportedTotal,
                 success |-> success_count,
                 client_error |-> client_error_count,
                 server_error |-> server_error_count,
                 other_failure |-> other_failure_count]
  /\ pc' = "done"
  /\ UNCHANGED <<tool, args, all_tasks, futures, counters>>

\* the exit status of the process once main has ended
ExitStatus == IF pc = "crashed" THEN 1 ELSE 0

Terminated == pc \in {"done", "returned", "crashed"}

Next ==
  \/ ParseSingle
  \/ ParseMulti
  \/ CreatePool
  \/ Submit
  \/ \E i \in DOMAIN futures : Start(i)
  \/ \E i \in DOMAIN futures : Finish(i)
  \/ \E i \in DOMAIN futures : Collect(i)
  \/ Summary

Spec == Init /\ [][Next]_vars

\* one request at a time, with every outcome of curl the model knows: the runs
\* that show which counter each result increments
NextClassify ==
  \/ ParseSingle
  \/ ParseMulti
  \/ CreatePool
  \/ Submit
  \/ \E i \in DOMAIN futures : Start(i)
  \/ \E i \in DOMAIN futures : FinishWith(i, WideCurlRuns)
  \/ \E i \in DOMAIN futures : Collect(i)
  \/ Summary

SpecClassify == InitWith(1) /\ [][NextClassify]_vars

\* the main thread runs on, the workers take queued items, and every call of
\* execute_curl returns
Fairness ==
  /\ WF_vars(ParseSingle \/ ParseMulti \/ CreatePool \/ Submit \/ Summary)
  /\ WF_vars(\E i \in DOMAIN futures : Collect(i))
  /\ WF_vars(\E i \in DOMAIN futures : Start(i))
  /\ WF_vars(\E i \in DOMAIN futures : Finish(i))

LiveSpec == InitWith(MaxLiveRequests) /\ [][Next]_vars /\ Fairness

(* ------------------------- runs over templates ----------------------- *)

\* the words of the templates: a URL, the tool's own flags, a count, a word
\* that is no number, and an option of curl
TemplateWords ==
  {"url", "-n", "--requests", "-c", "--concurrency", "2", "x", "-X"}

\* the sequences of at most n words
RECURSIVE WordSeqs(_)
WordSeqs(n) ==
  IF n = 0 THEN {<< >>}
  ELSE LET shorter == WordSeqs(n - 1)
       IN  shorter \cup {Append(ws, w) : ws \in shorter, w \in TemplateWords}

\* the command strings that start with curl
Templates == {<<"curl">> \o ws : ws \in WordSeqs(MaxWords)}

\* the command strings put beside a template: one that does not start with
\* curl, and one with an embedded count
Companions == { <<"wget", "url">>, <<"curl", "url", "-n", "2">> }

\* the positional arguments of the runs over templates
TemplateLists ==
  {<<t>> : t \in Templates \cup {<<"wget", "url">>, << >>}}
    \cup {<<t, c>> : t \in Templates, c \in Companions}
    \cup {<<c, t>> : t \in Templates, c \in Companions}

\* what curl does in the runs over templates
TemplateCurlRuns == { CurlRun("", 0, <<"2", "0", "0", "\n">>) }

InitTemplates ==
  /\ tool \in {"single", "multi"}
  /\ args \in [curl_commands : TemplateLists,
               requests : {1},
               concurrency : 1 .. MaxConcurrency]
  /\ tool = "single" => Len(args.curl_commands) = 1
  /\ pc = "start"
  /\ all_tasks = << >>
  /\ futures = << >>
  /\ success_count = 0
  /\ client_error_count = 0
  /\ server_error_count = 0
  /\ other_failure_count = 0
  /\ summary = NoSummary

NextTemplates ==
  \/ ParseSingle
  \/ ParseMulti
  \/ CreatePool
  \/ Submit
  \/ \E i \in DOMAIN futures : Start(i)
  \/ \E i \in DOMAIN futures : FinishWith(i, TemplateCurlRuns)
  \/ \E i \in DOMAIN futures : Collect(i)
  \/ Summary

SpecTemplates == InitTemplates /\ [][NextTemplates]_vars

(* ------------------ runs over curl's own options --------------------- *)

\* the words of the templates whose command is rewritten: a URL, the
\* write-out flags, a format, and the silent and follow-redirect flags
RewriteWords ==
  {"url", "-w", "--write-out", "x", "-s", "--silent", "-L", "--location"}

\* the sequences of at most n words of RewriteWords
RECURSIVE RewriteSeqs(_)
RewriteSeqs(n) ==
  IF n = 0 THEN {<< >>}
  ELSE LET shorter == RewriteSeqs(n - 1)
       IN  shorter \cup {Append(ws, w) : ws \in shorter, w \in RewriteWords}

\* the command strings that start with curl and hold curl's options
RewriteTemplates == {<<"curl">> \o ws : ws \in RewriteSeqs(MaxWords)}

\* the runs of multi_load_flare.py with one such template, once
InitRewrite ==
  /\ tool = "multi"
  /\ args \in [curl_commands : {<<t>> : t \in RewriteTemplates},
               requests : {1},
               concurrency : 1 .. MaxConcurrency]
  /\ pc = "start"
  /\ all_tasks = << >>
  /\ futures = << >>
  /\ success_count = 0
  /\ client_error_count = 0
  /\ server_error_count = 0
  /\ other_failure_count = 0
  /\ summary = NoSummary

NextRewrite ==
  \/ ParseMulti
  \/ CreatePool
  \/ Submit
  \/ \E i \in DOMAIN futures : Start(i)
  \/ \E i \in DOMAIN futures : FinishWith(i, TemplateCurlRuns)
  \/ \E i \in DOMAIN futures : Collect(i)
  \/ Summary

SpecRewrite == InitRewrite /\ [][NextRewrite]_vars

(* ------------------------------- claims ------------------------------- *)

CountedAs(b) == {i \in DOMAIN futures : futures[i].counted_as = b}

CounterSum ==
  success_count + client_error_count + server_error_count + other_failure_count

\* every counter holds the number of futures counted in its bucket
CountersMatch ==
  /\ success_count = Cardinality(CountedAs("success"))
  /\ client_error_count = Cardinality(CountedAs("client_error"))
  /\ server_error_count = Cardinality(CountedAs("server_error"))
  /\ other_failure_count = Cardinality(CountedAs("other_failure"))

SummarySum ==
  summary.success + summary.client_error + summary.server_error
    + summary.other_failure

\* C1: in the summary, the total of requests equals the number of work items
\* submitted and equals the sum of the four bucket counts.
C1_TotalEqualsSubmitted ==
  summary.printed =>
    /\ summary.total = Len(futures)
    /\ summary.total = SummarySum

\* C2: a result whose exit status is not 0 is counted as an other failure,
\* whatever status code was extracted from its output.
C2_ExitStatusDominates ==
  \A i \in Collected :
    futures[i].result.return_code # 0 =>
      futures[i].counted_as = "other_failure"

\* the band of a status code, as the specification words it
Band(code) ==
  IF code \in 200 .. 399 THEN "success"
  ELSE IF code \in 400 .. 499 THEN "client_error"
  ELSE IF code \in 500 .. 599 THEN "server_error"
  ELSE "other_failure"

\* C3: a result with exit status 0 and a status code is counted by the band of
\* the code alone, with the limits 200, 400, 500 and 600 exact, and every
\* collected result increments exactly one counter.
C3_CountedByBand ==
  /\ \A i \in Collected :
       (futures[i].result.return_code = 0
          /\ futures[i].result.http_status_code # None) =>
         futures[i].counted_as = Band(futures[i].result.http_status_code)
  /\ CountersMatch
  /\ CounterSum = Cardinality(Collected)

\* C3 witness: the code 400 has come back with exit status 0 from the
\* multi-template tool and was counted as a client error.
C3_Witness ==
  /\ tool = "multi"
  /\ \E i \in Collected :
       /\ futures[i].result.return_code = 0
       /\ futures[i].result.http_status_code = 400
       /\ futures[i].counted_as = "client_error"
       /\ client_error_count = 1

Erred == {i \in DOMAIN futures :
            futures[i].state = "FINISHED" /\ futures[i].result.raised # ""}

\* C4: a request whose run of curl raised (command not found, or any other
\* exception) has no status code and increments the other-failure counter
\* once; the run does not crash and ends with its summary.
C4_ExecutorErrorContained ==
  Erred # {} =>
    /\ \A i \in Erred :
         /\ futures[i].result.http_status_code = None
         /\ futures[i].counted_as \in {"", "other_failure"}
         /\ futures[i].calls = 1
    /\ other_failure_count = Cardinality(CountedAs("other_failure"))
    /\ pc \in {"submit", "collect", "done"}
    /\ pc = "done" =>
         /\ summary.printed
         /\ Erred \subseteq CountedAs("other_failure")
         /\ summary.other_failure >= Cardinality(Erred)

\* C4 witness: a run has ended in which curl was not found for one request and
\* another exception was raised for a second one.
C4_Witness ==
  /\ pc = "done"
  /\ summary.printed
  /\ \E i, j \in Erred :
       /\ futures[i].result.raised = "FileNotFoundError"
       /\ futures[j].result.raised = "Exception"
  /\ summary.other_failure = 2

\* C5: with a concurrency limit of at least 1, the number of calls of
\* execute_curl in flight never exceeds the limit (the queue may hold more).
C5_ConcurrencyBound ==
  args.concurrency >= 1 => Cardinality(Running) <= args.concurrency

\* C5 witness: the pool is full and more items are queued than the limit.
C5_Witness ==
  /\ args.concurrency >= 1
  /\ Cardinality(Running) = args.concurrency
  /\ Cardinality(Pending) > args.concurrency

\* C6: every submitted work item is executed exactly once and counted exactly
\* once, whatever it and the other items return: none is skipped, run again
\* or counted twice.
C6_ExactlyOnce ==
  /\ \A i \in DOMAIN futures :
       /\ futures[i].calls = (IF futures[i].state = "PENDING" THEN 0 ELSE 1)
       /\ futures[i].counted_as # "" => futures[i].state = "FINISHED"
  /\ CounterSum = Cardinality(Collected)
  /\ CountersMatch
  /\ pc = "done" =>
       /\ Len(futures) = NumTasks
       /\ \A i \in DOMAIN futures :
            futures[i].calls = 1 /\ futures[i].counted_as # ""

\* C6 witness: a run of three items has ended in which one item failed and
\* another succeeded.
C6_Witness ==
  /\ pc = "done"
  /\ Len(futures) = 3
  /\ \E i, j \in DOMAIN futures :
       /\ futures[i].result.raised # ""
       /\ futures[j].counted_as = "success"
  /\ CounterSum = 3

\* C7: when the summary has been printed, every work item has been submitted,
\* has finished and has been counted.
C7_SummaryAfterAll ==
  summary.printed =>
    /\ Len(futures) = NumTasks
    /\ \A i \in DOMAIN futures :
         futures[i].state = "FINISHED" /\ futures[i].counted_as # ""
    /\ SummarySum = Len(futures)
    /\ summary.success = success_count
    /\ summary.client_error = client_error_count
    /\ summary.server_error = server_error_count
    /\ summary.other_failure = other_failure_count

\* C7 witness: the summary of a run of three items has been printed.
C7_Witness ==
  /\ summary.printed
  /\ Len(futures) = 3
  /\ SummarySum = 3

\* a configuration the specification calls valid: a positive concurrency
\* limit, a positive request count, and commands that yield work items
ValidConfiguration ==
  /\ args.concurrency >= 1
  /\ args.requests >= 1
  /\ tool = "single" => SingleCommandOk(args.curl_commands[1])
  /\ tool = "multi" =>
       \A k \in DOMAIN args.curl_commands :
         TemplateTasks(args.curl_commands[k], args.requests) # << >>

\* C8: when every call of execute_curl returns, a run with a valid
\* configuration eventually prints the summary and ends with exit status 0,
\* whatever the requests return.
C8_EventuallySummary ==
  ValidConfiguration ~> (pc = "done" /\ summary.printed /\ ExitStatus = 0)

\* C8 witness: a run with a valid configuration has ended with its summary
\* after all of its requests failed.
C8_Witness ==
  /\ ValidConfiguration
  /\ pc = "done"
  /\ summary.printed
  /\ Len(futures) >= 2
  /\ summary.other_failure = Len(futures)

\* the list of work items is empty: the command is accepted and the request
\* count is not positive, or no template has yielded a task
EmptyWorkList ==
  \/ /\ tool = "single"
     /\ SingleCommandOk(args.curl_commands[1])
     /\ args.requests <= 0
  \/ /\ tool = "multi"
     /\ BuildTasks(args.curl_commands, args.requests) = << >>

NoWorkDone ==
  /\ futures = << >>
  /\ CounterSum = 0

\* C9 as claimed: a run with an empty list of work items (and a valid
\* concurrency limit) ends with a report whose four counts are zero, the
\* executor never called.
C9_EmptyRunReportsZeros ==
  (EmptyWorkList /\ args.concurrency >= 1 /\ Terminated) =>
    /\ NoWorkDone
    /\ summary.printed
    /\ SummarySum = 0

\* C9 as amended: with an empty list of work items the executor is never
\* called and no counter moves; the single-template tool ends with a summary
\* whose four counts are zero, the multi-template tool returns without one.
C9_EmptyRun ==
  EmptyWorkList =>
    /\ NoWorkDone
    /\ (args.concurrency >= 1 /\ Terminated) =>
         /\ tool = "single" =>
              pc = "done" /\ summary.printed /\ SummarySum = 0
         /\ tool = "multi" => pc = "returned" /\ ~summary.printed

\* C9 witness: the single-template tool has ended a run of zero requests with
\* its summary.
C9_Witness ==
  /\ tool = "single"
  /\ args.requests = 0
  /\ pc = "done"
  /\ summary.printed
  /\ SummarySum = 0
  /\ futures = << >>

\* C10: with a concurrency limit <= 0 the run fails before any work starts:
\* nothing is submitted or executed, no summary is printed, and the run ends
\* in a configuration failure, which is the ValueError of the pool's
\* constructor whenever the commands had been accepted.
C10_InvalidConcurrencyFails ==
  args.concurrency <= 0 =>
    /\ NoWorkDone
    /\ ~summary.printed
    /\ pc \in {"start", "pool", "returned", "crashed"}
    /\ Terminated =>
         /\ pc = "crashed" <=>
              IF tool = "single" THEN SingleCommandOk(args.curl_commands[1])
              ELSE all_tasks # << >>
         /\ pc = "crashed" => ExitStatus = 1

\* C10 witness: a run with work to do and a concurrency limit of 0 has ended
\* in the error of the pool's constructor.
C10_Witness ==
  /\ args.concurrency = 0
  /\ args.requests >= 1
  /\ pc = "crashed"
  /\ futures = << >>

\* a request count in effect is not positive: the -n of the single-template
\* tool, or the count (embedded, else global) of a template that starts with
\* curl
NonPositiveCount ==
  \/ tool = "single" /\ args.requests <= 0
  \/ /\ tool = "multi"
     /\ \E k \in DOMAIN args.curl_commands :
          LET t == args.curl_commands[k] IN
            /\ ~ShlexRaises(t)
            /\ t # << >>
            /\ t[1] = "curl"
            /\ ParseArgs(t, 1, args.requests, << >>).per_cmd_requests <= 0

\* C11: a request count that is not positive is rejected before any work is
\* dispatched: the run submits nothing and prints no summary.
C11_NonPositiveCountRejected ==
  NonPositiveCount =>
    /\ futures = << >>
    /\ ~summary.printed
    /\ pc # "done"

\* C12: work items start in submission order: no item is executing or
\* finished while an item submitted before it is still queued.
C12_FifoStart ==
  \A i, j \in DOMAIN futures :
    (i < j /\ futures[i].state = "PENDING") => futures[j].state = "PENDING"

\* C12 witness: with two workers, the second item has finished before the
\* first while a third item is still queued.
C12_Witness ==
  /\ Len(futures) = 3
  /\ futures[1].state = "RUNNING"
  /\ futures[2].state = "FINISHED"
  /\ futures[3].state = "PENDING"

\* a step of a worker: some future starts or finishes
WorkerStep ==
  \E i \in DOMAIN futures :
    i \in DOMAIN futures' /\ futures'[i].state # futures[i].state

\* C13: the four counters change only in a step of the collection loop, which
\* counts one finished future by adding one to one counter; no step of a
\* worker changes a counter.
C13_CountersOnlyInCollection ==
  [][ /\ WorkerStep => counters' = counters
      /\ counters' # counters =>
           /\ pc = "collect" /\ pc' = "collect"
           /\ CounterSum' = CounterSum + 1
           /\ \E i \in DOMAIN futures :
                /\ futures[i].state = "FINISHED"
                /\ futures[i].counted_as = ""
                /\ futures' =
                     [futures EXCEPT ![i].counted_as = futures'[i].counted_as]
                /\ futures'[i].counted_as \in Buckets
    ]_vars

\* C13 witness: one item has been counted while a worker is still running
\* execute_curl for another.
C13_Witness ==
  /\ pc = "collect"
  /\ CounterSum = 1
  /\ Running # {}
  /\ \E i \in Erred : futures[i].counted_as = "other_failure"

\* the futures counted so far whose result belongs to bucket b
ResultsIn(b) ==
  {i \in Collected : Bucket(futures[i].result) = b}

\* C14: the counts depend only on the results of the items, not on the order
\* in which they finish or are collected: each counter is the number of
\* collected results of its bucket, and the summary holds these numbers for
\* all the items.
C14_CountsIndependentOfOrder ==
  /\ success_count = Cardinality(ResultsIn("success"))
  /\ client_error_count = Cardinality(ResultsIn("client_error"))
  /\ server_error_count = Cardinality(ResultsIn("server_error"))
  /\ other_failure_count = Cardinality(ResultsIn("other_failure"))
  /\ summary.printed =>
       /\ Collected = DOMAIN futures
       /\ summary.success = Cardinality(ResultsIn("success"))
       /\ summary.client_error = Cardinality(ResultsIn("client_error"))
       /\ summary.server_error = Cardinality(ResultsIn("server_error"))
       /\ summary.other_failure = Cardinality(ResultsIn("other_failure"))

\* C14 witness: the third item, a success, has been collected before the
\* first two, and counted as a success.
C14_Witness ==
  /\ Len(futures) = 3
  /\ futures[1].counted_as = ""
  /\ futures[2].counted_as = ""
  /\ futures[3].counted_as = "success"
  /\ success_count = 1

\* the futures whose curl ended with exit status 0 and no status code
NoCode ==
  {i \in DOMAIN futures :
     /\ futures[i].state = "FINISHED"
     /\ futures[i].result.raised = ""
     /\ futures[i].result.return_code = 0
     /\ futures[i].result.http_status_code = None}

\* C15: a result with exit status 0 and no status code is counted as an other
\* failure, never as a success; the run goes on and counts every item.
C15_NoCodeIsOtherFailure ==
  NoCode # {} =>
    /\ \A i \in NoCode : futures[i].counted_as \in {"", "other_failure"}
    /\ success_count = Cardinality(CountedAs("success"))
    /\ pc \in {"submit", "collect", "done"}
    /\ pc = "done" =>
         /\ summary.printed
         /\ SummarySum = Len(futures)
         /\ summary.other_failure >= Cardinality(NoCode)

\* C15 witness: a run of the single-template tool has ended in which one
\* request came back with exit status 0 and no status code, and another
\* succeeded.
C15_Witness ==
  /\ tool = "single"
  /\ pc = "done"
  /\ NoCode # {}
  /\ summary.success >= 1
  /\ summary.other_failure = Cardinality(NoCode)

(* claims about the templates *)

CountFlags == {"-n", "--requests"}

ConcurrencyFlags == {"-c", "--concurrency"}

\* the command string parses and starts with curl
StartsWithCurl(t) == ~ShlexRaises(t) /\ t # << >> /\ t[1] = "curl"

\* the places of template t where a count flag is followed by an integer
ValidCountAt(t) ==
  {i \in DOMAIN t : t[i] \in CountFlags /\ i < Len(t) /\ t[i + 1] \in IntWords}

\* the places of template t where a count flag has no integer after it
InvalidCountAt(t) ==
  {i \in DOMAIN t : t[i] \in CountFlags /\ i \notin ValidCountAt(t)}

SetMax(S) == CHOOSE m \in S : \A x \in S : x <= m

\* the count the claims give template t: its (last) valid embedded count,
\* else the global default
ClaimedCount(t, default) ==
  IF ValidCountAt(t) = {} THEN default
  ELSE IntValue[t[SetMax(ValidCountAt(t)) + 1]]

\* the number of work items the claims give a list of command strings
RECURSIVE ClaimedTotal(_, _)
ClaimedTotal(cmds, default) ==
  IF cmds = << >> THEN 0
  ELSE (IF StartsWithCurl(Head(cmds))
        THEN Max(0, ClaimedCount(Head(cmds), default))
        ELSE 0)
       + ClaimedTotal(Tail(cmds), default)

\* the tasks of all_tasks that come from the command string t
TasksOf(t) ==
  {k \in DOMAIN all_tasks : all_tasks[k].original_cmd_str = t}

\* the k-th command string, when no other command string of the run equals it
Alone(k) ==
  \A j \in DOMAIN args.curl_commands :
    j # k => args.curl_commands[j] # args.curl_commands[k]

Parsed == tool = "multi" /\ pc # "start"

\* C16: a template contributes its valid embedded count of work items, a
\* template without an embedded count contributes the global default, and
\* all_tasks holds the sum over the templates that start with curl.
C16_EmbeddedCountOverrides ==
  Parsed =>
    /\ Len(all_tasks) = ClaimedTotal(args.curl_commands, args.requests)
    /\ \A k \in DOMAIN args.curl_commands :
         LET t == args.curl_commands[k] IN
           (StartsWithCurl(t) /\ Alone(k)) =>
             Cardinality(TasksOf(t)) =
               IF ValidCountAt(t) # {}
               THEN Max(0, IntValue[t[SetMax(ValidCountAt(t)) + 1]])
               ELSE Max(0, args.requests)

\* C16 witness: a template with an embedded -n 2 and a template without a
\* count, under a global default of 1, have given three tasks.
C16_Witness ==
  /\ Parsed
  /\ args.requests = 1
  /\ args.curl_commands = << <<"curl", "url", "-n", "2">>, <<"curl", "url">> >>
  /\ Len(all_tasks) = 3
  /\ pc = "done"

HasEmbeddedConcurrency ==
  \E k \in DOMAIN args.curl_commands :
    /\ StartsWithCurl(args.curl_commands[k])
    /\ \E i \in DOMAIN args.curl_commands[k] :
         args.curl_commands[k][i] \in ConcurrencyFlags

\* C17: an embedded -c/--concurrency is ignored: the pool never runs more
\* than the global -c calls at once, and the number of work items is the one
\* the counts give, whatever follows the embedded flag.
C17_EmbeddedConcurrencyIgnored ==
  (Parsed /\ HasEmbeddedConcurrency) =>
    /\ Cardinality(Running) <= args.concurrency
    /\ Len(all_tasks) = ClaimedTotal(args.curl_commands, args.requests)
    /\ \A k \in DOMAIN all_tasks :
         \A i \in DOMAIN all_tasks[k].command_args :
           all_tasks[k].command_args[i] \notin ConcurrencyFlags

\* C17 witness: a template embeds -c 2 and the global limit is 1: one call
\* runs and another item waits in the queue.
C17_Witness ==
  /\ Parsed
  /\ args.concurrency = 1
  /\ args.curl_commands =
       << <<"curl", "url", "-c", "2">>, <<"curl", "url", "-n", "2">> >>
  /\ Len(all_tasks) = 3
  /\ Cardinality(Running) = 1
  /\ Cardinality(Pending) = 2

\* C18: a command string that does not start with curl causes no call of the
\* executor; the multi-template tool skips it alone and runs the other
\* templates in full, the single-template tool dispatches nothing.
C18_NonCurlSkipped ==
  /\ (tool = "single" /\ ~StartsWithCurl(args.curl_commands[1])) =>
       futures = << >> /\ pc \in {"start", "returned"}
  /\ Parsed =>
       /\ \A k \in DOMAIN all_tasks :
            StartsWithCurl(all_tasks[k].original_cmd_str)
       /\ Len(futures) <= Len(all_tasks)
       /\ Len(all_tasks) = ClaimedTotal(args.curl_commands, args.requests)
       /\ \A k \in DOMAIN args.curl_commands :
            LET t == args.curl_commands[k] IN
              /\ ~StartsWithCurl(t) => TasksOf(t) = {}
              /\ (StartsWithCurl(t) /\ Alone(k)) =>
                   Cardinality(TasksOf(t)) =
                     Max(0, ClaimedCount(t, args.requests))
       /\ all_tasks # << >> => pc # "returned"

\* C18 witness: beside a command that starts with wget, a template with an
\* embedded -n 2 has run twice and the run has ended with its summary.
C18_Witness ==
  /\ Parsed
  /\ args.curl_commands = << <<"wget", "url">>, <<"curl", "url", "-n", "2">> >>
  /\ pc = "done"
  /\ Len(futures) = 2
  /\ summary.success = 2

\* C19: a template with an embedded -n whose value is missing or is no
\* integer is run the global default number of times.
C19_InvalidCountUsesDefault ==
  Parsed =>
    \A k \in DOMAIN args.curl_commands :
      LET t == args.curl_commands[k] IN
        (StartsWithCurl(t) /\ Alone(k) /\ InvalidCountAt(t) # {}) =>
          Cardinality(TasksOf(t)) = Max(0, args.requests)

\* the words of template t the tool removes: its own flags, the integer after
\* a count flag, and the word after a concurrency flag that does not start
\* with a dash
Removed(t) ==
  {i \in DOMAIN t :
     \/ t[i] \in CountFlags \cup ConcurrencyFlags
     \/ i > 1 /\ t[i - 1] \in CountFlags /\ t[i] \in IntWords
     \/ i > 1 /\ t[i - 1] \in ConcurrencyFlags /\ ~StartsWithDash(t[i])}

\* the words of t from place i on that are not removed, in their order
RECURSIVE KeptFrom(_, _)
KeptFrom(t, i) ==
  IF i > Len(t) THEN << >>
  ELSE (IF i \in Removed(t) THEN << >> ELSE <<t[i]>>) \o KeptFrom(t, i + 1)

\* C20: the arguments handed to the executor are the words of the template
\* without the tool's flags, their counts and their values, in their order;
\* no -n, --requests, -c or --concurrency is among them.
C20_OnlyOwnFlagsRemoved ==
  Parsed =>
    \A k \in DOMAIN all_tasks :
      /\ all_tasks[k].command_args = KeptFrom(all_tasks[k].original_cmd_str, 1)
      /\ \A i \in DOMAIN all_tasks[k].command_args :
           all_tasks[k].command_args[i] \notin CountFlags \cup ConcurrencyFlags

\* C20 witness: the template curl -c 2 -X has been parsed to curl -X.
C20_Witness ==
  /\ Parsed
  /\ \E k \in DOMAIN all_tasks :
       /\ all_tasks[k].original_cmd_str = <<"curl", "-c", "2", "-X">>
       /\ all_tasks[k].command_args = <<"curl", "-X">>
  /\ futures # << >>

WriteOutFlags == {"-w", "--write-out"}

\* word k of command_args is a write-out flag of the user: a -w or --write-out
\* that is not itself the format of the flag before it
RECURSIVE UserWriteOutAt(_, _)
UserWriteOutAt(command_args, k) ==
  /\ k \in 2 .. Len(command_args)
  /\ command_args[k] \in WriteOutFlags
  /\ ~UserWriteOutAt(command_args, k - 1)

\* the words of command_args from place k on that are neither a write-out
\* flag of the user nor the format after one, in their order
RECURSIVE OtherArgsFrom(_, _)
OtherArgsFrom(command_args, k) ==
  IF k > Len(command_args) THEN << >>
  ELSE (IF UserWriteOutAt(command_args, k)
             \/ UserWriteOutAt(command_args, k - 1)
        THEN << >> ELSE <<command_args[k]>>)
       \o OtherArgsFrom(command_args, k + 1)

\* the work items of the multi-template tool whose call has been made
Called == {i \in DOMAIN futures : tool = "multi" /\ futures[i].calls > 0}

\* the command starts with curl and holds one write-out option, the injected
\* -w with the status-code format
OneWriteOut(command) ==
  /\ command[1] = "curl"
  /\ Cardinality({j \in DOMAIN command : command[j] \in WriteOutFlags}) = 1
  /\ \E j \in 1 .. (Len(command) - 1) :
       command[j] = "-w" /\ command[j + 1] = HttpCodeFormat

\* the command holds a silent flag and a follow-redirect flag
SilentAndLocation(command) ==
  /\ \E j \in DOMAIN command : command[j] \in {"-s", "--silent"}
  /\ \E j \in DOMAIN command : command[j] \in {"-L", "--location"}

\* the command ends with the other arguments of command_args, in their order,
\* after curl and the injected words
KeepsOtherArgs(command, command_args) ==
  LET kept == OtherArgsFrom(command_args, 2)
      n == Len(command) - Len(kept)
  IN  /\ n >= 1
      /\ SubSeq(command, n + 1, Len(command)) = kept
      /\ \A j \in 2 .. n : command[j] \in {"-s", "-L", "-w", HttpCodeFormat}

\* C21: the command the multi-template tool executes starts with curl, holds
\* exactly one write-out option (the injected -w with the status-code
\* format), holds a silent and a follow-redirect flag, and holds every
\* argument of the template other than the user's -w/--write-out and their
\* formats, in the original order.
C21_RewrittenCommand ==
  \A i \in Called :
    /\ OneWriteOut(futures[i].command)
    /\ SilentAndLocation(futures[i].command)
    /\ KeepsOtherArgs(futures[i].command, all_tasks[i].command_args)

\* the work items whose call of execute_curl has returned exit status 0
ExitZero ==
  {i \in DOMAIN futures :
     futures[i].state = "FINISHED" /\ futures[i].result.return_code = 0}

\* C22: for every result with exit status 0, with or without a status code,
\* the collection loops of the two tools choose the same bucket, and it is the
\* bucket the running tool has incremented for the result.
C22_SameBucketOnExitZero ==
  \A i \in ExitZero :
    /\ SingleBucket(futures[i].result) = MultiBucket(futures[i].result)
    /\ i \in Collected =>
         /\ futures[i].counted_as = SingleBucket(futures[i].result)
         /\ futures[i].counted_as = MultiBucket(futures[i].result)

\* C22 witness: the single-template tool has counted a 301 with exit status 0
\* as a success, the bucket the multi-template loop gives the same result.
C22_Witness ==
  /\ tool = "single"
  /\ \E i \in ExitZero \cap Collected :
       /\ futures[i].result.http_status_code = 301
       /\ futures[i].counted_as = "success"
       /\ MultiBucket(futures[i].result) = "success"

MinOf(a, b) == IF a <= b THEN a ELSE b

\* the oldest queued work item
NextPending == CHOOSE i \in Pending : \A j \in Pending : i <= j

\* C23: with a concurrency limit c >= 1 and k work items, at most min(k, c)
\* calls of execute_curl are in flight, and whenever an item is queued while
\* fewer than c calls are in flight, a worker can start the oldest queued
\* item: no worker is kept idle while work is queued.
C23_BoundAttained ==
  args.concurrency >= 1 =>
    /\ Cardinality(Running) <= MinOf(NumTasks, args.concurrency)
    /\ (Pending # {} /\ Cardinality(Running) < args.concurrency) =>
         ENABLED Start(NextPending)

\* C23 witness: with more work items than workers, as many calls as the limit
\* allows are in flight at once while an item is still queued, and the
\* oldest queued item is the one submitted last.
C23_Witness ==
  /\ args.concurrency = MaxConcurrency
  /\ NumTasks = MaxRequests
  /\ Cardinality(Running) = MinOf(NumTasks, args.concurrency)
  /\ Pending = {MaxRequests}
  /\ Len(futures) = NumTasks

====
